---- MODULE Spec2Model ----
(***************************************************************************)
(* A model of the guild-configuration bot of src/main.py: the JSON config  *)
(* file, the placeholder expander, the theme merger, the three slash       *)
(* commands and the member-join handler, run as tasks of a single-threaded *)
(* cooperative event loop that interleave only at `await`.                 *)
(*                                                                         *)
(* Representation.  A Python/JSON value is a tagged record [t, v]: t is    *)
(* one of "null", "bool", "int", "str", "list", "dict".  A string is a     *)
(* sequence of one-character strings, so that str.replace, str.strip,      *)
(* int(_, 16) and json.loads work on characters as the code does.  A dict  *)
(* is a function from keys (character sequences) to values.                *)
(*                                                                         *)
(* Scope.  Reading and writing config.json and answering an interaction    *)
(* succeed (an interaction that was already answered raises                *)
(* InteractionResponded, as the library does).  member.add_roles and       *)
(* channel.send may fail.  json.loads covers objects, arrays, strings      *)
(* without escapes, integers and the three literals; int(_, 16) covers a   *)
(* sign, the 0x prefix and hexadecimal digits.  Message payloads are       *)
(* those of the data model: `embeds`, when present, is a list of objects.  *)
(***************************************************************************)
EXTENDS Integers, Sequences, FiniteSets, TLC

VARIABLES config_file, tasks, sent, role_calls, log, call

vars == <<config_file, tasks, sent, role_calls, log, call>>

(***************************************************************************)
(* Bounds of the model.                                                    *)
(***************************************************************************)
MaxEvents == 2

MaxLeaves == 2

(***************************************************************************)
(* Python values.                                                          *)
(***************************************************************************)
JNull == [t |-> "null"]

JBool(b) == [t |-> "bool", v |-> b]

JInt(n) == [t |-> "int", v |-> n]

JStr(s) == [t |-> "str", v |-> s]

JList(l) == [t |-> "list", v |-> l]

JDict(f) == [t |-> "dict", v |-> f]

EmptyDict == JDict(<<>>)

\* bool(x): the truth value Python gives a value in `if x`, `not x`, `a and b`.
truthy(x) ==
    CASE x.t = "null" -> FALSE
      [] x.t = "bool" -> x.v
      [] x.t = "int"  -> x.v # 0
      [] x.t = "str"  -> Len(x.v) > 0
      [] x.t = "list" -> Len(x.v) > 0
      [] x.t = "dict" -> DOMAIN x.v # {}

\* `k in d` for a dict d.
has(d, k) == k \in DOMAIN d.v

\* d.get(k): the value under k, None when the key is absent.
get(d, k) == IF has(d, k) THEN d.v[k] ELSE JNull

\* d[k] = x.
setitem(d, k, x) == JDict((k :> x) @@ d.v)

(***************************************************************************)
(* Characters and the literal strings of the program.                      *)
(***************************************************************************)
Q == "\""

tok_user == <<"{", "u", "s", "e", "r", "}">>

tok_username == <<"{", "u", "s", "e", "r", "n", "a", "m", "e", "}">>

k_theme == <<"t", "h", "e", "m", "e">>

k_primary == <<"p", "r", "i", "m", "a", "r", "y">>

k_secondary == <<"s", "e", "c", "o", "n", "d", "a", "r", "y">>

k_channel_id == <<"c", "h", "a", "n", "n", "e", "l", "_", "i", "d">>

k_embed_data == <<"e", "m", "b", "e", "d", "_", "d", "a", "t", "a">>

k_role_id == <<"r", "o", "l", "e", "_", "i", "d">>

k_content == <<"c", "o", "n", "t", "e", "n", "t">>

k_embeds == <<"e", "m", "b", "e", "d", "s">>

k_title == <<"t", "i", "t", "l", "e">>

k_description == <<"d", "e", "s", "c", "r", "i", "p", "t", "i", "o", "n">>

k_fields == <<"f", "i", "e", "l", "d", "s">>

k_color == <<"c", "o", "l", "o", "r">>

(***************************************************************************)
(* str.replace(old, new): the occurrences of `old` are found left to right *)
(* and do not overlap; the text put in is not scanned again.               *)
(***************************************************************************)
RECURSIVE str_replace(_, _, _)
str_replace(s, old, new) ==
    IF Len(s) < Len(old) THEN s
    ELSE IF SubSeq(s, 1, Len(old)) = old
         THEN new \o str_replace(SubSeq(s, Len(old) + 1, Len(s)), old, new)
         ELSE <<Head(s)>> \o str_replace(Tail(s), old, new)

\* `old in s` for strings.
str_contains(s, old) ==
    \E i \in 1..Len(s) : i + Len(old) - 1 <= Len(s) /\ SubSeq(s, i, i + Len(old) - 1) = old

(***************************************************************************)
(* replace_placeholders (main.py 32-39).                                   *)
(***************************************************************************)
\* replace_placeholders without its dict branch.
RECURSIVE replace_placeholders_nodict(_, _)
replace_placeholders_nodict(obj, member) ==
    IF obj.t = "str"
    THEN JStr(str_replace(str_replace(obj.v, tok_user, member.mention),
                          tok_username, member.name))
    ELSE IF obj.t = "list"
    THEN JList([i \in DOMAIN obj.v |-> replace_placeholders_nodict(obj.v[i], member)])
    ELSE obj

\* replace_placeholders with its list branch building the list back to front.
RECURSIVE replace_placeholders_reversed(_, _)
replace_placeholders_reversed(obj, member) ==
    IF obj.t = "str"
    THEN JStr(str_replace(str_replace(obj.v, tok_user, member.mention),
                          tok_username, member.name))
    ELSE IF obj.t = "list"
    THEN JList([i \in DOMAIN obj.v |->
                   replace_placeholders_reversed(obj.v[Len(obj.v) + 1 - i], member)])
    ELSE IF obj.t = "dict"
    THEN JDict([k \in DOMAIN obj.v |-> replace_placeholders_reversed(obj.v[k], member)])
    ELSE obj

RECURSIVE replace_placeholders(_, _)
replace_placeholders(obj, member) ==
    IF obj.t = "str"
    THEN JStr(str_replace(str_replace(obj.v, tok_user, member.mention),
                          tok_username, member.name))
    ELSE IF obj.t = "list"
    THEN JList([i \in DOMAIN obj.v |-> replace_placeholders(obj.v[i], member)])
    ELSE IF obj.t = "dict"
    THEN JDict([k \in DOMAIN obj.v |-> replace_placeholders(obj.v[k], member)])
    ELSE obj

(***************************************************************************)
(* The config store (main.py 22-30).  config_file is the document held by  *)
(* config.json, or NoFile while the file does not exist.                   *)
(***************************************************************************)
NoFile == [t |-> "nofile"]

\* load_config that never finds the file.
load_config_empty == EmptyDict

load_config == IF config_file = NoFile THEN EmptyDict ELSE config_file

\* The file after save_config(data).
save_config(data) == data

(***************************************************************************)
(* apply_theme (main.py 41-61).                                            *)
(***************************************************************************)
\* set_color without its `if 'color' not in embed_dict`.
set_color_always(embed_dict, primary_color) ==
    setitem(embed_dict, k_color, primary_color)

set_color(embed_dict, primary_color) ==
    IF ~has(embed_dict, k_color)
    THEN setitem(embed_dict, k_color, primary_color)
    ELSE embed_dict

\* `if not primary_color` (main.py 48).
no_primary(primary_color) == ~truthy(primary_color)

apply_theme(data, guild_id) ==
    LET config == load_config IN
    IF ~has(config, guild_id) \/ ~has(config.v[guild_id], k_theme)
    THEN data
    ELSE LET primary_color == get(config.v[guild_id].v[k_theme], k_primary) IN
         IF no_primary(primary_color) THEN data
         ELSE IF has(data, k_embeds)
         THEN setitem(data, k_embeds,
                  JList([i \in DOMAIN data.v[k_embeds].v |->
                            set_color(data.v[k_embeds].v[i], primary_color)]))
         ELSE IF \E k \in {k_title, k_description, k_fields} : has(data, k)
         THEN set_color(data, primary_color)
         ELSE data

(***************************************************************************)
(* int(s.strip('#'), 16) (main.py 127-128): the result, or ValueError.     *)
(***************************************************************************)
RECURSIVE lstrip(_, _)
lstrip(s, c) == IF Len(s) > 0 /\ Head(s) = c THEN lstrip(Tail(s), c) ELSE s

RECURSIVE rstrip(_, _)
rstrip(s, c) ==
    IF Len(s) > 0 /\ s[Len(s)] = c THEN rstrip(SubSeq(s, 1, Len(s) - 1), c) ELSE s

\* s.strip(c): every leading and every trailing c is removed.
strip(s, c) == rstrip(lstrip(s, c), c)

hex_lower == <<"0", "1", "2", "3", "4", "5", "6", "7", "8", "9",
               "a", "b", "c", "d", "e", "f">>

hex_upper == <<"0", "1", "2", "3", "4", "5", "6", "7", "8", "9",
               "A", "B", "C", "D", "E", "F">>

is_hex_digit(c) == \E i \in DOMAIN hex_lower : hex_lower[i] = c \/ hex_upper[i] = c

hex_digit(c) == (CHOOSE i \in DOMAIN hex_lower : hex_lower[i] = c \/ hex_upper[i] = c) - 1

RECURSIVE hex_value(_, _)
hex_value(digits, acc) ==
    IF digits = <<>> THEN acc
    ELSE hex_value(Tail(digits), acc * Len(hex_lower) + hex_digit(Head(digits)))

ValueError == [ok |-> FALSE]

\* int(s, 16): an optional sign, an optional 0x prefix, then one or more digits.
int16(s) ==
    LET signed   == Len(s) > 0 /\ Head(s) \in {"+", "-"}
        unsigned == IF signed THEN Tail(s) ELSE s
        prefixed == Len(unsigned) >= 2 /\ unsigned[1] = "0" /\ unsigned[2] \in {"x", "X"}
        digits   == IF prefixed THEN SubSeq(unsigned, 3, Len(unsigned)) ELSE unsigned
    IN  IF digits = <<>> \/ \E i \in DOMAIN digits : ~is_hex_digit(digits[i])
        THEN ValueError
        ELSE [ok |-> TRUE,
              val |-> IF signed /\ Head(s) = "-"
                      THEN 0 - hex_value(digits, 0)
                      ELSE hex_value(digits, 0)]

\* The parse without strip('#').
parse_color_nostrip(s) == int16(s)

parse_color(s) == int16(strip(s, "#"))

(***************************************************************************)
(* json.loads (main.py 164, 193): the parsed value, or JSONDecodeError.    *)
(* A parse step answers [ok, val, pos]: the value read and the index of    *)
(* the first character after it.                                           *)
(***************************************************************************)
JSONDecodeError == [ok |-> FALSE]

digit_chars == {"0", "1", "2", "3", "4", "5", "6", "7", "8", "9"}

RECURSIVE skip_ws(_, _)
skip_ws(s, i) == IF i <= Len(s) /\ s[i] = " " THEN skip_ws(s, i + 1) ELSE i

RECURSIVE scan_digits(_, _)
scan_digits(s, i) == IF i <= Len(s) /\ s[i] \in digit_chars THEN scan_digits(s, i + 1) ELSE i

RECURSIVE dec_value(_, _)
dec_value(digits, acc) ==
    IF digits = <<>> THEN acc
    ELSE dec_value(Tail(digits), acc * Cardinality(digit_chars) + hex_digit(Head(digits)))

starts_with(s, i, word) ==
    i + Len(word) - 1 <= Len(s) /\ SubSeq(s, i, i + Len(word) - 1) = word

\* A string literal opening at s[i] = Q: it runs to the next Q.
parse_string(s, i) ==
    IF \E j \in (i + 1)..Len(s) : s[j] = Q
    THEN LET j == CHOOSE j \in (i + 1)..Len(s) :
                      s[j] = Q /\ \A m \in (i + 1)..(j - 1) : s[m] # Q
         IN  [ok |-> TRUE, val |-> SubSeq(s, i + 1, j - 1), pos |-> j + 1]
    ELSE JSONDecodeError

\* An integer at s[i]: an optional minus sign, then digits without a leading zero.
parse_number(s, i) ==
    LET neg   == s[i] = "-"
        first == IF neg THEN i + 1 ELSE i
        last  == scan_digits(s, first)
    IN  IF last = first \/ (s[first] = "0" /\ last > first + 1)
        THEN JSONDecodeError
        ELSE LET n == dec_value(SubSeq(s, first, last - 1), 0)
             IN  [ok |-> TRUE, val |-> JInt(IF neg THEN 0 - n ELSE n), pos |-> last]

RECURSIVE parse_value(_, _), parse_members(_, _, _), parse_elements(_, _, _)
parse_value(s, i) ==
    LET j == skip_ws(s, i) IN
    IF j > Len(s) THEN JSONDecodeError
    ELSE IF s[j] = "{"
    THEN LET k == skip_ws(s, j + 1) IN
         IF k <= Len(s) /\ s[k] = "}"
         THEN [ok |-> TRUE, val |-> EmptyDict, pos |-> k + 1]
         ELSE parse_members(s, k, <<>>)
    ELSE IF s[j] = "["
    THEN LET k == skip_ws(s, j + 1) IN
         IF k <= Len(s) /\ s[k] = "]"
         THEN [ok |-> TRUE, val |-> JList(<<>>), pos |-> k + 1]
         ELSE parse_elements(s, k, <<>>)
    ELSE IF s[j] = Q
    THEN LET r == parse_string(s, j) IN
         IF r.ok THEN [ok |-> TRUE, val |-> JStr(r.val), pos |-> r.pos] ELSE r
    ELSE IF s[j] = "-" \/ s[j] \in digit_chars THEN parse_number(s, j)
    ELSE IF starts_with(s, j, <<"n", "u", "l", "l">>)
    THEN [ok |-> TRUE, val |-> JNull, pos |-> j + 4]
    ELSE IF starts_with(s, j, <<"t", "r", "u", "e">>)
    THEN [ok |-> TRUE, val |-> JBool(TRUE), pos |-> j + 4]
    ELSE IF starts_with(s, j, <<"f", "a", "l", "s", "e">>)
    THEN [ok |-> TRUE, val |-> JBool(FALSE), pos |-> j + 5]
    ELSE JSONDecodeError

\* The members of an object from s[i] on: "key" : value, then `,` or `}`.
\* A key given twice keeps its last value.
parse_members(s, i, acc) ==
    LET j == skip_ws(s, i) IN
    IF j > Len(s) \/ s[j] # Q THEN JSONDecodeError
    ELSE LET key == parse_string(s, j) IN
         IF ~key.ok THEN JSONDecodeError
         ELSE LET c == skip_ws(s, key.pos) IN
              IF c > Len(s) \/ s[c] # ":" THEN JSONDecodeError
              ELSE LET r == parse_value(s, c + 1) IN
                   IF ~r.ok THEN JSONDecodeError
                   ELSE LET e    == skip_ws(s, r.pos)
                            acc2 == (key.val :> r.val) @@ acc
                        IN  IF e > Len(s) THEN JSONDecodeError
                            ELSE IF s[e] = "," THEN parse_members(s, e + 1, acc2)
                            ELSE IF s[e] = "}"
                            THEN [ok |-> TRUE, val |-> JDict(acc2), pos |-> e + 1]
                            ELSE JSONDecodeError

\* The elements of an array from s[i] on: value, then `,` or `]`.
parse_elements(s, i, acc) ==
    LET r == parse_value(s, i) IN
    IF ~r.ok THEN JSONDecodeError
    ELSE LET e    == skip_ws(s, r.pos)
             acc2 == Append(acc, r.val)
         IN  IF e > Len(s) THEN JSONDecodeError
             ELSE IF s[e] = "," THEN parse_elements(s, e + 1, acc2)
             ELSE IF s[e] = "]"
             THEN [ok |-> TRUE, val |-> JList(acc2), pos |-> e + 1]
             ELSE JSONDecodeError

\* json.loads(s): one value, with nothing but blanks around it.
json_loads(s) ==
    LET r == parse_value(s, 1) IN
    IF r.ok /\ skip_ws(s, r.pos) > Len(s)
    THEN [ok |-> TRUE, val |-> r.val]
    ELSE JSONDecodeError

(***************************************************************************)
(* The events the model draws from.                                        *)
(***************************************************************************)
lit(chars) == <<Q>> \o chars \o <<Q>>

\* {"content":"hi {user}"}
txt_hi_user ==
    <<"{">> \o lit(k_content) \o <<":">> \o lit(<<"h", "i", " ">> \o tok_user) \o <<"}">>

\* {"embeds":[{"title":"x"}]}
txt_embeds_title ==
    <<"{">> \o lit(k_embeds) \o <<":", "[", "{">> \o lit(k_title) \o <<":">>
        \o lit(<<"x">>) \o <<"}", "]", "}">>

\* {"embeds": [{"title":"x", "color":10}]}
txt_embeds_color ==
    <<"{">> \o lit(k_embeds) \o <<":", " ", "[", "{">> \o lit(k_title) \o <<":">>
        \o lit(<<"x">>) \o <<",", " ">> \o lit(k_color) \o <<":", "1", "0", "}", "]", "}">>

\* {not json
txt_not_json == <<"{", "n", "o", "t", " ", "j", "s", "o", "n">>

\* {"content":""}
txt_empty_content == <<"{">> \o lit(k_content) \o <<":">> \o lit(<<>>) \o <<"}">>

\* {"description":"d"}
txt_description == <<"{">> \o lit(k_description) \o <<":">> \o lit(<<"d">>) \o <<"}">>

\* {"title":"{username}","content":"yo"}
txt_title ==
    <<"{">> \o lit(k_title) \o <<":">> \o lit(tok_username) \o <<",">>
        \o lit(k_content) \o <<":">> \o lit(<<"y", "o">>) \o <<"}">>

\* [1]
txt_array == <<"[", "1", "]">>

\* {"embeds":[{"title":"x"},{},{},{},{},{},{},{},{},{},{"color":1}]}: one embed
\* more than a message may carry.
txt_eleven ==
    <<"{">> \o lit(k_embeds) \o <<":", "[", "{">> \o lit(k_title) \o <<":">>
        \o lit(<<"x">>) \o <<"}", ",">>
        \o <<"{", "}", ",", "{", "}", ",", "{", "}", ",">>
        \o <<"{", "}", ",", "{", "}", ",", "{", "}", ",">>
        \o <<"{", "}", ",", "{", "}", ",", "{", "}", ",">>
        \o <<"{">> \o lit(k_color) \o <<":", "1", "}", "]", "}">>

Texts == {txt_hi_user, txt_embeds_title, txt_embeds_color, txt_not_json,
          txt_empty_content, txt_description, txt_title, txt_array, txt_eleven}

Guilds == {<<"1">>, <<"2">>}

Channels == {42, 43}

\* The optional role argument of the welcome command: role.id, or None.
RoleArgs == {JNull, JInt(5)}

Primaries == {JStr(<<"#", "F", "F", "5", "7", "3", "3">>),
              JStr(<<"#", "0", "0", "0", "0", "0", "0">>),
              JStr(<<"z", "z">>)}

\* The optional secondary argument of the theme command.
Secondaries == {JNull, JStr(<<"#", "0", "a">>), JStr(<<"x", "y", "z">>)}

\* A member: member.mention and member.name.
Members == {[mention |-> <<"<", "@", "9", "9", ">">>, name |-> <<"b", "o", "b">>]}

\* json.loads on the texts the model draws, tabulated.
loads_table == [txt \in Texts |-> json_loads(txt)]

(***************************************************************************)
(* The message a handler hands to channel.send (main.py 108-115, 168-180). *)
(***************************************************************************)
EmbedCap == 10

embed_keys == {k_title, k_description, k_fields, k_color}

\* discord.Embed.from_dict(e): an embed made of the embed keys of e.
from_dict(e) == JDict([k \in DOMAIN e.v \cap embed_keys |-> e.v[k]])

\* l[-n:]
take_last(l, n) == SubSeq(l, IF Len(l) < n THEN 1 ELSE Len(l) - n + 1, Len(l))

\* l[:n]
take(l, n) == SubSeq(l, 1, IF Len(l) < n THEN Len(l) ELSE n)

build_embeds(data) ==
    IF has(data, k_embeds)
    THEN [i \in DOMAIN data.v[k_embeds].v |-> from_dict(data.v[k_embeds].v[i])]
    ELSE IF \E k \in embed_keys : has(data, k)
    THEN <<from_dict(data)>>
    ELSE <<>>

\* The arguments of channel.send(content=content, embeds=embeds[:10]).
send_args(data) ==
    [content |-> get(data, k_content), embeds |-> take(build_embeds(data), EmbedCap)]

(***************************************************************************)
(* Replies to the invoker (interaction.response.send_message).             *)
(***************************************************************************)
Reply(msg, ephemeral) == [msg |-> msg, ephemeral |-> ephemeral]

MSG_NEED_ADMIN == "You need Administrator permissions to use this command."

MSG_INTERNAL == "An internal error occurred."

MSG_THEME_UPDATED == "Theme Updated"

MSG_INVALID_HEX == "Invalid hex color format. Use format like #FF5733."

MSG_EMBED_POSTED == "Embed posted successfully."

MSG_NEED_CONTENT == "JSON must contain 'content' or 'embeds'."

MSG_INVALID_JSON_FORMAT == "Error: Invalid JSON format."

MSG_ERROR_PARSING == "Error parsing data"

MSG_INVALID_JSON == "Invalid JSON."

MSG_WELCOME_SET == "Welcome message set"

\* The embed theme_command answers with (main.py 143-151).
theme_reply(p_int, s_int) ==
    [msg |-> MSG_THEME_UPDATED, ephemeral |-> FALSE, color |-> p_int,
     secondary_field |-> truthy(s_int)]

(***************************************************************************)
(* Tasks.  A task is one run of a handler: its arguments (None when the    *)
(* permission check refused the call and the handler never ran), the await *)
(* it is suspended in (pc), the reply it is sending (out), its locals      *)
(* `settings`, `role`, `channel` ("unset" until assigned, then "found" or  *)
(* "none") and `data`, the replies its invoker has received, and the       *)
(* exception that left the handler, if one did.                            *)
(***************************************************************************)
NewTask(kind, guild_id, admin, args) ==
    [kind |-> kind, guild |-> guild_id, admin |-> admin, args |-> args,
     pc |-> "done", out |-> JNull, settings |-> JNull, role |-> "unset",
     channel |-> "unset", data |-> JNull, replies |-> <<>>, raised |-> "none"]

\* The handler suspends in `await interaction.response.send_message(reply)`,
\* after which it returns.
Replying(task, reply) == [task EXCEPT !.pc = "reply", !.out = reply]

\* The refusal answered by the `else` branch of on_tree_error (lines 71-74).
Refused_internal(kind, guild_id) ==
    LET task == NewTask(kind, guild_id, FALSE, JNull) IN
    [task EXCEPT !.raised = "MissingPermissions", !.pc = "reply",
                 !.out = Reply(MSG_INTERNAL, TRUE)]

\* @app_commands.checks.has_permissions(administrator=True) (main.py 124, 161,
\* 190) refuses the call: the handler does not run, on_tree_error answers.
Refused(kind, guild_id) ==
    LET task == NewTask(kind, guild_id, FALSE, JNull) IN
    [task EXCEPT !.raised = "MissingPermissions", !.pc = "reply",
                 !.out = Reply(MSG_NEED_ADMIN, TRUE)]

\* MyBot.on_tree_error (main.py 68-74) for a task whose command raised `error`.
\* An interaction that was answered is not answered again.
on_tree_error(task, error) ==
    IF task.replies = <<>>
    THEN Replying([task EXCEPT !.raised = error], Reply(MSG_INTERNAL, TRUE))
    ELSE [task EXCEPT !.raised = error, !.pc = "done", !.out = JNull]

\* What on_tree_error writes to the log for `error`.
tree_error_log(error) == <<"Interaction error">>

(***************************************************************************)
(* theme_command (main.py 125-157), up to its first await.                 *)
(***************************************************************************)
\* Lines 133-139 building the store anew around the guild's entry.
theme_update_fresh(config, guild_id, p_int, s_int) ==
    JDict(guild_id :> JDict(k_theme :> JDict((k_primary :> p_int)
                                             @@ (k_secondary :> s_int))))

\* Lines 136-139 with the two colors under each other's key.
theme_update_swapped(config, guild_id, p_int, s_int) ==
    LET entry == IF has(config, guild_id) THEN config.v[guild_id] ELSE EmptyDict
    IN  setitem(config, guild_id,
            setitem(entry, k_theme,
                JDict((k_primary :> s_int) @@ (k_secondary :> p_int))))

\* config after lines 133-139.
theme_update(config, guild_id, p_int, s_int) ==
    LET entry == IF has(config, guild_id) THEN config.v[guild_id] ELSE EmptyDict
    IN  setitem(config, guild_id,
            setitem(entry, k_theme,
                JDict((k_primary :> p_int) @@ (k_secondary :> s_int))))

\* Lines 127-128: [ok, p_int, s_int], or ValueError.
theme_parse(primary, secondary) ==
    LET p == parse_color(primary.v) IN
    IF ~p.ok THEN ValueError
    ELSE IF truthy(secondary)
    THEN LET sc == parse_color(secondary.v) IN
         IF ~sc.ok THEN ValueError
         ELSE [ok |-> TRUE, p_int |-> JInt(p.val), s_int |-> JInt(sc.val)]
    ELSE [ok |-> TRUE, p_int |-> JInt(p.val), s_int |-> JNull]

InvokeTheme(guild_id, admin, primary, secondary) ==
    LET task == NewTask("theme", guild_id, admin,
                        [primary |-> primary, secondary |-> secondary])
        r    == theme_parse(primary, secondary)
    IN  /\ Len(tasks) < MaxEvents
        /\ IF ~admin
           THEN /\ tasks' = Append(tasks, Refused("theme", guild_id))
                /\ UNCHANGED config_file
           ELSE IF ~r.ok
           THEN /\ tasks' = Append(tasks, Replying(task, Reply(MSG_INVALID_HEX, TRUE)))
                /\ UNCHANGED config_file
           ELSE /\ config_file' =
                       save_config(theme_update(load_config, guild_id, r.p_int, r.s_int))
                /\ tasks' = Append(tasks, Replying(task, theme_reply(r.p_int, r.s_int)))
        /\ UNCHANGED <<sent, role_calls, log, call>>

(***************************************************************************)
(* welcome_command (main.py 191-215), up to its first await.               *)
(***************************************************************************)
\* Line 195 testing for the keys instead of their values.
welcome_refused_keys(data) ==
    ~has(data, k_content) /\ ~has(data, k_embeds) /\ ~has(data, k_title)

\* Line 195: the payload is refused.
welcome_refused(data) ==
    /\ ~truthy(get(data, k_content))
    /\ ~truthy(get(data, k_embeds))
    /\ ~truthy(get(data, k_title))

\* Lines 202-209 assigning the guild's entry instead of updating it.
welcome_update_replace(config, guild_id, channel_id, data, role_id) ==
    setitem(config, guild_id,
        JDict((k_channel_id :> channel_id) @@ (k_embed_data :> data)
              @@ (k_role_id :> role_id)))

\* Lines 202-209 with the update applied to every entry of the store.
welcome_update_all(config, guild_id, channel_id, data, role_id) ==
    LET created == IF has(config, guild_id) THEN config
                   ELSE setitem(config, guild_id, EmptyDict)
    IN  JDict([g \in DOMAIN created.v |->
                  JDict((k_channel_id :> channel_id) @@ (k_embed_data :> data)
                        @@ (k_role_id :> role_id) @@ created.v[g].v)])

\* config after lines 202-209.
welcome_update(config, guild_id, channel_id, data, role_id) ==
    LET entry == IF has(config, guild_id) THEN config.v[guild_id] ELSE EmptyDict
    IN  setitem(config, guild_id,
            JDict((k_channel_id :> channel_id) @@ (k_embed_data :> data)
                  @@ (k_role_id :> role_id) @@ entry.v))

InvokeWelcome(guild_id, admin, channel_id, embed_json, role_id) ==
    LET task == NewTask("welcome", guild_id, admin,
                        [channel |-> channel_id, embed_json |-> embed_json,
                         role |-> role_id])
        r    == loads_table[embed_json]
    IN  /\ Len(tasks) < MaxEvents
        /\ IF ~admin
           THEN /\ tasks' = Append(tasks, Refused("welcome", guild_id))
                /\ UNCHANGED <<config_file, log>>
           ELSE IF ~r.ok
           THEN /\ tasks' =
                       Append(tasks, Replying(task, Reply(MSG_INVALID_JSON_FORMAT, TRUE)))
                /\ UNCHANGED <<config_file, log>>
           ELSE IF r.val.t # "dict"
           THEN \* data.get raises AttributeError, which no except clause catches
                /\ tasks' = Append(tasks, on_tree_error(task, "AttributeError"))
                /\ log' = log \o tree_error_log("AttributeError")
                /\ UNCHANGED config_file
           ELSE IF welcome_refused(r.val)
           THEN /\ tasks' = Append(tasks, Replying(task, Reply(MSG_INVALID_JSON, TRUE)))
                /\ UNCHANGED <<config_file, log>>
           ELSE /\ config_file' =
                       save_config(welcome_update(load_config, guild_id,
                                                  JInt(channel_id), r.val, role_id))
                /\ tasks' = Append(tasks, Replying(task, Reply(MSG_WELCOME_SET, FALSE)))
                /\ UNCHANGED log
        /\ UNCHANGED <<sent, role_calls, call>>

\* `await interaction.response.send_message(...)` returns: the invoker has the
\* reply, and the handler (or on_tree_error) returns.
ResponseSent(i) ==
    /\ tasks[i].pc = "reply"
    /\ tasks' = [tasks EXCEPT ![i].pc = "done", ![i].out = JNull,
                              ![i].replies = Append(@, tasks[i].out)]
    /\ UNCHANGED <<config_file, sent, role_calls, log, call>>

(***************************************************************************)
(* embed_command (main.py 162-186).                                        *)
(***************************************************************************)
\* Lines 182-186 without the `except json.JSONDecodeError` clause.
embed_except_generic(error) == Reply(MSG_ERROR_PARSING, TRUE)

\* Lines 182-186: the answer of the except clause that catches `error`.
embed_except(error) ==
    IF error = "JSONDecodeError"
    THEN Reply(MSG_INVALID_JSON_FORMAT, TRUE)
    ELSE Reply(MSG_ERROR_PARSING, TRUE)

\* Lines 184-185: what the except clause logs.
embed_except_log(error) ==
    IF error = "JSONDecodeError" THEN <<>> ELSE <<"Embed error">>

\* Line 175: there is nothing to post.
embed_empty(data) == ~truthy(get(data, k_content)) /\ build_embeds(data) = <<>>

InvokeEmbed(guild_id, admin, channel_id, embed_json) ==
    LET task == NewTask("embed", guild_id, admin,
                        [channel |-> channel_id, embed_json |-> embed_json])
        r    == loads_table[embed_json]
    IN  /\ Len(tasks) < MaxEvents
        /\ IF ~admin
           THEN /\ tasks' = Append(tasks, Refused("embed", guild_id))
                /\ UNCHANGED log
           ELSE IF ~r.ok
           THEN /\ tasks' = Append(tasks, Replying(task, embed_except("JSONDecodeError")))
                /\ log' = log \o embed_except_log("JSONDecodeError")
           ELSE IF r.val.t # "dict"
           THEN \* lines 166-168 raise TypeError or AttributeError
                /\ tasks' = Append(tasks, Replying(task, embed_except("AttributeError")))
                /\ log' = log \o embed_except_log("AttributeError")
           ELSE LET data == apply_theme(r.val, guild_id) IN
                /\ UNCHANGED log
                /\ IF embed_empty(data)
                   THEN tasks' =
                            Append(tasks, Replying(task, Reply(MSG_NEED_CONTENT, TRUE)))
                   ELSE tasks' =
                            Append(tasks, [task EXCEPT !.pc = "confirm", !.data = data,
                                               !.out = Reply(MSG_EMBED_POSTED, TRUE)])
        /\ UNCHANGED <<config_file, sent, role_calls, call>>

\* Line 179 returns: the invoker has the confirmation; line 180 starts the post.
EmbedConfirmed(i) ==
    /\ tasks[i].pc = "confirm"
    /\ tasks' = [tasks EXCEPT ![i].pc = "post", ![i].out = JNull,
                              ![i].replies = Append(@, tasks[i].out)]
    /\ sent' = Append(sent, [task |-> i, channel |-> tasks[i].args.channel,
                             status |-> "pending"] @@ send_args(tasks[i].data))
    /\ UNCHANGED <<config_file, role_calls, log, call>>

\* Line 180 returns or raises.  When it raises, `except Exception` logs and
\* answers the interaction again, which raises InteractionResponded out of the
\* command, to on_tree_error.
EmbedPosted(i, ok) ==
    LET m == CHOOSE m \in DOMAIN sent : sent[m].task = i IN
    /\ tasks[i].pc = "post"
    /\ IF ok
       THEN /\ sent' = [sent EXCEPT ![m].status = "ok"]
            /\ tasks' = [tasks EXCEPT ![i].pc = "done"]
            /\ UNCHANGED log
       ELSE /\ sent' = [sent EXCEPT ![m].status = "failed"]
            /\ tasks' = [tasks EXCEPT ![i] = on_tree_error(@, "InteractionResponded")]
            /\ log' = log \o embed_except_log("HTTPException")
                           \o tree_error_log("InteractionResponded")
    /\ UNCHANGED <<config_file, role_calls, call>>

(***************************************************************************)
(* on_member_join (main.py 83-117).                                        *)
(***************************************************************************)
\* Lines 100-115 for task i: the task and the sends after them.  The channel
\* is in the guild's cache (channel_exists) or get_channel answers None.
\* Line 100: a welcome message is configured.
welcome_configured(settings) ==
    truthy(get(settings, k_channel_id)) /\ truthy(get(settings, k_embed_data))

\* Lines 104-106 without line 106.
welcome_data_raw(raw_data, guild_id, member) == apply_theme(raw_data, guild_id)

\* Lines 104-106: the payload handed on to lines 108-115.
welcome_data(raw_data, guild_id, member) ==
    replace_placeholders(apply_theme(raw_data, guild_id), member)

\* Lines 100-115 reading `settings` from the store again after the await.
join_welcome_reloaded(task, i, channel_exists) ==
    LET settings == load_config.v[task.guild] IN
    IF ~welcome_configured(settings)
    THEN [task |-> [task EXCEPT !.pc = "done"], sent |-> sent]
    ELSE IF ~channel_exists
    THEN [task |-> [task EXCEPT !.pc = "done", !.channel = "none"], sent |-> sent]
    ELSE LET data == welcome_data(settings.v[k_embed_data], task.guild,
                                  task.args.member)
         IN  [task |-> [task EXCEPT !.pc = "send", !.channel = "found",
                                    !.data = data],
              sent |-> Append(sent, [task |-> i,
                                     channel |-> settings.v[k_channel_id].v,
                                     status |-> "pending"] @@ send_args(data))]

join_welcome(task, i, channel_exists) ==
    LET settings == task.settings IN
    IF ~welcome_configured(settings)
    THEN [task |-> [task EXCEPT !.pc = "done"], sent |-> sent]
    ELSE IF ~channel_exists
    THEN [task |-> [task EXCEPT !.pc = "done", !.channel = "none"], sent |-> sent]
    ELSE LET data == welcome_data(settings.v[k_embed_data], task.guild,
                                  task.args.member)
         IN  [task |-> [task EXCEPT !.pc = "send", !.channel = "found",
                                    !.data = data],
              sent |-> Append(sent, [task |-> i,
                                     channel |-> settings.v[k_channel_id].v,
                                     status |-> "pending"] @@ send_args(data))]

\* Line 92: a role is configured.
role_configured(settings) == truthy(get(settings, k_role_id))

MemberJoin(guild_id, member, role_exists, channel_exists) ==
    LET task   == NewTask("join", guild_id, TRUE, [member |-> member])
        config == load_config
        i      == Len(tasks) + 1
    IN  /\ Len(tasks) < MaxEvents
        /\ IF ~has(config, guild_id)
           THEN /\ tasks' = Append(tasks, task)
                /\ UNCHANGED <<sent, role_calls>>
           ELSE LET loaded == [task EXCEPT !.settings = config.v[guild_id]] IN
                IF role_configured(loaded.settings) /\ role_exists
                THEN /\ tasks' = Append(tasks, [loaded EXCEPT !.pc = "role",
                                                               !.role = "found"])
                     /\ role_calls' =
                            Append(role_calls,
                                   [task |-> i, role |-> loaded.settings.v[k_role_id].v,
                                    status |-> "pending"])
                     /\ UNCHANGED sent
                ELSE LET w == join_welcome(
                                  [loaded EXCEPT !.role =
                                       IF role_configured(loaded.settings)
                                       THEN "none" ELSE "unset"],
                                  i, channel_exists)
                     IN
                     /\ tasks' = Append(tasks, w.task)
                     /\ sent' = w.sent
                     /\ UNCHANGED role_calls
        /\ UNCHANGED <<config_file, log, call>>

\* What `await member.add_roles(role)` (line 96) does to the handler: it
\* returns, raises discord.Forbidden, or raises another discord.HTTPException.
role_outcomes == {"ok", "Forbidden", "HTTPException"}

\* Lines 95-98: the exception that leaves the try statement, "none" if none.
role_escapes(outcome) == IF outcome \in {"ok", "Forbidden"} THEN "none" ELSE outcome

JoinRoleDone(i, outcome, channel_exists) ==
    LET r == CHOOSE r \in DOMAIN role_calls : role_calls[r].task = i IN
    /\ tasks[i].pc = "role"
    /\ role_calls' = [role_calls EXCEPT ![r].status = IF outcome = "ok" THEN "ok" ELSE "failed"]
    /\ IF role_escapes(outcome) # "none"
       THEN \* the exception leaves on_member_join; the library logs it
            /\ tasks' = [tasks EXCEPT ![i].pc = "done", ![i].raised = role_escapes(outcome)]
            /\ log' = Append(log, "Ignoring exception in on_member_join")
            /\ UNCHANGED sent
       ELSE LET w == join_welcome(tasks[i], i, channel_exists) IN
            /\ tasks' = [tasks EXCEPT ![i] = w.task]
            /\ sent' = w.sent
            /\ log' = IF outcome = "Forbidden"
                      THEN Append(log, "Cannot assign welcome role")
                      ELSE log
    /\ UNCHANGED <<config_file, call>>

\* Lines 115-117 followed by a save_config of the handler's `config`, whose
\* embed_data apply_theme has colored in place.
JoinSendDone_saving(i, ok) ==
    LET m      == CHOOSE m \in DOMAIN sent : sent[m].task = i
        g      == tasks[i].guild
        themed == apply_theme(tasks[i].settings.v[k_embed_data], g)
    IN  /\ tasks[i].pc = "send"
        /\ sent' = [sent EXCEPT ![m].status = IF ok THEN "ok" ELSE "failed"]
        /\ tasks' = [tasks EXCEPT ![i].pc = "done"]
        /\ log' = IF ok THEN log ELSE Append(log, "Failed to send welcome message")
        /\ config_file' =
               save_config(setitem(load_config, g,
                                   setitem(tasks[i].settings, k_embed_data, themed)))
        /\ UNCHANGED <<role_calls, call>>

\* `await channel.send(...)` (line 115) returns or raises; `except Exception`
\* logs the failure.
JoinSendDone(i, ok) ==
    LET m == CHOOSE m \in DOMAIN sent : sent[m].task = i IN
    /\ tasks[i].pc = "send"
    /\ sent' = [sent EXCEPT ![m].status = IF ok THEN "ok" ELSE "failed"]
    /\ tasks' = [tasks EXCEPT ![i].pc = "done"]
    /\ log' = IF ok THEN log ELSE Append(log, "Failed to send welcome message")
    /\ UNCHANGED <<config_file, role_calls, call>>

\* config.json as the process finds it: absent, or left by an earlier run in
\* which guild "1" set its welcome message.
InitialFiles ==
    {NoFile,
     save_config(welcome_update(EmptyDict, <<"1">>, JInt(42),
                                json_loads(txt_embeds_title).val, JInt(5)))}

\* No call of the two functions on their own is in progress.
NoCall == [fn |-> "none"]

Init ==
    /\ config_file \in InitialFiles
    /\ tasks = <<>>
    /\ sent = <<>>
    /\ role_calls = <<>>
    /\ log = <<>>
    /\ call = NoCall

Next ==
    \/ \E g \in Guilds, admin \in BOOLEAN, p \in Primaries, sc \in Secondaries :
           InvokeTheme(g, admin, p, sc)
    \/ \E g \in Guilds, admin \in BOOLEAN, c \in Channels, txt \in Texts :
           InvokeEmbed(g, admin, c, txt)
    \/ \E g \in Guilds, admin \in BOOLEAN, c \in Channels, txt \in Texts, r \in RoleArgs :
           InvokeWelcome(g, admin, c, txt, r)
    \/ \E g \in Guilds, m \in Members, role_exists \in BOOLEAN, channel_exists \in BOOLEAN :
           MemberJoin(g, m, role_exists, channel_exists)
    \/ \E i \in DOMAIN tasks : ResponseSent(i)
    \/ \E i \in DOMAIN tasks : EmbedConfirmed(i)
    \/ \E i \in DOMAIN tasks, ok \in BOOLEAN : EmbedPosted(i, ok)
    \/ \E i \in DOMAIN tasks, outcome \in role_outcomes, channel_exists \in BOOLEAN :
           JoinRoleDone(i, outcome, channel_exists)
    \/ \E i \in DOMAIN tasks, ok \in BOOLEAN : JoinSendDone(i, ok)

Spec == Init /\ [][Next]_vars

(***************************************************************************)
(* The two tree-walking functions on their own: `call` holds one call of   *)
(* apply_theme or replace_placeholders, its arguments drawn from bounded   *)
(* sets of values, and then its result.                                    *)
(***************************************************************************)
\* The sequences over S of length at most n.
SeqsUpTo(S, n) == UNION {[1..m -> S] : m \in 0..n}

\* The strings made of at most MaxLeaves of these pieces.
Fragments == {tok_user, tok_username, <<"h", "i", " ">>, <<"{">>,
              <<"{", "u", "s", "e", "r">>, <<"n", "a", "m", "e", "}">>}

RECURSIVE concat(_)
concat(pieces) == IF pieces = <<>> THEN <<>> ELSE Head(pieces) \o concat(Tail(pieces))

Strings == {concat(ps) : ps \in SeqsUpTo(Fragments, MaxLeaves)}

Scalars == {JNull, JInt(7), JBool(TRUE)}

Leaves == {JStr(str) : str \in Strings} \cup Scalars

SmallLeaves == {JStr(tok_user), JStr(<<"h", "i", " ">> \o tok_username), JInt(7), JNull}

\* The dicts with keys among `keys` and values in `vals`.
DictsOver(keys, vals) == {JDict(f) : f \in UNION {[K -> vals] : K \in SUBSET keys}}

Nested1 ==
    {JList(l) : l \in SeqsUpTo(SmallLeaves, MaxLeaves)}
        \cup DictsOver({k_content, k_title}, SmallLeaves)

Inner == {JList(<<JStr(tok_user), JInt(7)>>),
          JDict(k_title :> JStr(tok_username)),
          JDict(tok_user :> JStr(tok_user)),
          JStr(tok_username \o tok_user)}

Nested2 ==
    {JList(l) : l \in SeqsUpTo(Inner, MaxLeaves)}
        \cup DictsOver({k_embeds, k_content}, Inner)

JsonValues == Leaves \cup Nested1 \cup Nested2

\* Members of the calls: an ordinary one, and one whose name holds a token.
CallMembers ==
    Members \cup {[mention |-> <<"<", "@", "7", ">">>, name |-> tok_user]}

\* Embed objects, and the payloads built from them (the data model's
\* MessagePayload: content, embeds, or the keys of a bare embed).
EmbedObjs ==
    {EmptyDict,
     JDict(k_title :> JStr(<<"x">>)),
     JDict((k_title :> JStr(<<"x">>)) @@ (k_color :> JInt(10))),
     JDict(k_color :> JInt(0)),
     JDict(k_description :> JStr(<<"d">>))}

\* No entry under k, or k with one of vals.
opt(k, vals) == {<<>>} \cup {k :> v : v \in vals}

Payloads ==
    {JDict(a @@ b @@ c @@ d @@ e) :
        a \in opt(k_content, {JStr(<<"h", "i">>)}),
        b \in opt(k_embeds, {JList(l) : l \in SeqsUpTo(EmbedObjs, MaxLeaves)}),
        c \in opt(k_title, {JStr(<<"t">>)}),
        d \in opt(k_color, {JInt(10)}),
        e \in opt(k_fields, {JList(<<>>)})}

\* Files the theme and welcome commands leave: guild "1" with no entry, with a
\* welcome message only, or with a theme whose primary the command parsed.
ThemeColors ==
    {JInt(parse_color(p.v).val) :
        p \in {q \in Primaries \cup {JStr(<<"#", "f", "f">>)} : parse_color(q.v).ok}}

ThemeFiles ==
    InitialFiles
        \cup {save_config(theme_update(IF f = NoFile THEN EmptyDict ELSE f, <<"1">>,
                                       c, JNull)) :
                 f \in InitialFiles, c \in ThemeColors}

InitFn ==
    /\ tasks = <<>>
    /\ sent = <<>>
    /\ role_calls = <<>>
    /\ log = <<>>
    /\ \/ /\ config_file \in ThemeFiles
          /\ call \in {[fn |-> "apply_theme", data |-> d, guild_id |-> g,
                        done |-> FALSE, result |-> JNull] :
                          d \in Payloads, g \in Guilds}
       \/ /\ config_file = NoFile
          /\ call \in {[fn |-> "replace_placeholders", obj |-> o, member |-> m,
                        done |-> FALSE, result |-> JNull] :
                          o \in JsonValues, m \in CallMembers}

CallApplyTheme ==
    /\ call.fn = "apply_theme" /\ ~call.done
    /\ call' = [call EXCEPT !.done = TRUE,
                            !.result = apply_theme(call.data, call.guild_id)]
    /\ UNCHANGED <<config_file, tasks, sent, role_calls, log>>

CallReplacePlaceholders ==
    /\ call.fn = "replace_placeholders" /\ ~call.done
    /\ call' = [call EXCEPT !.done = TRUE,
                            !.result = replace_placeholders(call.obj, call.member)]
    /\ UNCHANGED <<config_file, tasks, sent, role_calls, log>>

NextFn == CallApplyTheme \/ CallReplacePlaceholders

SpecFn == InitFn /\ [][NextFn]_vars

(***************************************************************************)
(* Properties of the two functions, checked under SpecFn.                  *)
(***************************************************************************)
\* The document config.json holds, {} while there is no file.
stored == IF config_file = NoFile THEN EmptyDict ELSE config_file

\* config[guild_id]['theme']['primary'] of the file, None when there is none.
stored_primary(guild_id) ==
    LET config == stored IN
    IF has(config, guild_id) /\ has(config.v[guild_id], k_theme)
    THEN get(config.v[guild_id].v[k_theme], k_primary)
    ELSE JNull

ThemeCallDone == call.fn = "apply_theme" /\ call.done

\* C2: when the guild's stored theme has a primary color (any integer the theme
\* command stores, 0 included), every embed-shaped object of the payload that
\* defines no `color` (each element of `embeds`, or the payload itself when it
\* has no `embeds` but has title, description or fields) leaves apply_theme
\* with `color` set to the stored primary.
C2_PrimaryInjected ==
    (ThemeCallDone /\ stored_primary(call.guild_id).t = "int") =>
        LET d == call.data
            r == call.result
            p == stored_primary(call.guild_id)
        IN  IF has(d, k_embeds)
            THEN /\ has(r, k_embeds)
                 /\ Len(r.v[k_embeds].v) = Len(d.v[k_embeds].v)
                 /\ \A i \in DOMAIN d.v[k_embeds].v :
                        ~has(d.v[k_embeds].v[i], k_color)
                            => get(r.v[k_embeds].v[i], k_color) = p
            ELSE ((\E k \in {k_title, k_description, k_fields} : has(d, k))
                     /\ ~has(d, k_color))
                     => get(r, k_color) = p

\* C3: apply_theme returns the payload as it was when the guild has no entry or
\* no theme; and whatever the theme, an embed object that defines `color`
\* comes back as it was, and so does every key of the payload other than
\* `embeds` and an added `color`.
C3_ThemeNoOp ==
    ThemeCallDone =>
        LET d      == call.data
            r      == call.result
            config == stored
            g      == call.guild_id
        IN  /\ (~has(config, g) \/ ~has(config.v[g], k_theme)) => r = d
            /\ DOMAIN r.v \ {k_color} = DOMAIN d.v \ {k_color}
            /\ \A k \in DOMAIN d.v \ {k_embeds} : r.v[k] = d.v[k]
            /\ (~has(d, k_embeds) /\ has(d, k_color)) => r = d
            /\ has(d, k_embeds) =>
                   /\ Len(r.v[k_embeds].v) = Len(d.v[k_embeds].v)
                   /\ \A i \in DOMAIN d.v[k_embeds].v :
                          LET e == d.v[k_embeds].v[i]
                              f == r.v[k_embeds].v[i]
                          IN  /\ has(e, k_color) => f = e
                              /\ \A k \in DOMAIN e.v : f.v[k] = e.v[k]

\* A themed guild, and a payload with one embed that defines its color and one
\* that does not: the merge changed the payload and kept the defined color.
C3_Witness ==
    /\ ThemeCallDone
    /\ truthy(stored_primary(call.guild_id))
    /\ has(call.data, k_embeds)
    /\ \E i, j \in DOMAIN call.data.v[k_embeds].v :
           /\ has(call.data.v[k_embeds].v[i], k_color)
           /\ ~has(call.data.v[k_embeds].v[j], k_color)
    /\ call.result # call.data

has_token(str) == str_contains(str, tok_user) \/ str_contains(str, tok_username)

\* One pass over a string, left to right: each `{username}` becomes the name,
\* each `{user}` the mention, every other character stays.
RECURSIVE expand_once(_, _)
expand_once(str, member) ==
    IF str = <<>> THEN <<>>
    ELSE IF starts_with(str, 1, tok_username)
    THEN member.name
             \o expand_once(SubSeq(str, Len(tok_username) + 1, Len(str)), member)
    ELSE IF starts_with(str, 1, tok_user)
    THEN member.mention
             \o expand_once(SubSeq(str, Len(tok_user) + 1, Len(str)), member)
    ELSE <<Head(str)>> \o expand_once(Tail(str), member)

\* r has the shape of v: the same type at every node, lists of the same
\* length, dicts with the same keys, the same scalars.
RECURSIVE SameShape(_, _)
SameShape(v, r) ==
    /\ r.t = v.t
    /\ CASE v.t = "list" -> /\ Len(r.v) = Len(v.v)
                            /\ \A i \in DOMAIN v.v : SameShape(v.v[i], r.v[i])
         [] v.t = "dict" -> /\ DOMAIN r.v = DOMAIN v.v
                            /\ \A k \in DOMAIN v.v : SameShape(v.v[k], r.v[k])
         [] v.t = "str"  -> TRUE
         [] OTHER        -> r = v

\* Every string leaf of r is the leaf of v with its tokens replaced, and is
\* the leaf of v itself when that holds no token.  (v and r have one shape.)
RECURSIVE LeavesExpanded(_, _, _)
LeavesExpanded(v, r, member) ==
    CASE v.t = "str"  -> /\ r.v = expand_once(v.v, member)
                         /\ ~has_token(v.v) => r.v = v.v
      [] v.t = "list" -> \A i \in DOMAIN v.v : LeavesExpanded(v.v[i], r.v[i], member)
      [] v.t = "dict" -> \A k \in DOMAIN v.v : LeavesExpanded(v.v[k], r.v[k], member)
      [] OTHER        -> TRUE

ExpandCallDone == call.fn = "replace_placeholders" /\ call.done

\* C4: replace_placeholders(v, m) has the shape of v, and differs from v only
\* in the string leaves that hold `{user}` or `{username}`, where `{user}` is
\* replaced by m.mention and `{username}` by m.name.
C4_ShapeAndLeaves ==
    ExpandCallDone =>
        /\ SameShape(call.obj, call.result)
        /\ LeavesExpanded(call.obj, call.result, call.member)

\* A list that holds a dict with a token in a leaf: it was expanded.
C4_Witness ==
    /\ ExpandCallDone
    /\ call.obj.t = "list"
    /\ \E i \in DOMAIN call.obj.v :
           /\ call.obj.v[i].t = "dict"
           /\ \E k \in DOMAIN call.obj.v[i].v :
                  /\ call.obj.v[i].v[k].t = "str"
                  /\ has_token(call.obj.v[i].v[k].v)
                  /\ call.result.v[i].v[k] # call.obj.v[i].v[k]

\* No string of v (element, or value under a key) holds a token.
RECURSIVE token_free(_)
token_free(v) ==
    CASE v.t = "str"  -> ~has_token(v.v)
      [] v.t = "list" -> \A i \in DOMAIN v.v : token_free(v.v[i])
      [] v.t = "dict" -> \A k \in DOMAIN v.v : token_free(v.v[k])
      [] OTHER        -> TRUE

\* C15: when replace_placeholders(v, m) holds no `{user}` and no `{username}`
\* in any of its strings, expanding it again for the same member returns it
\* unchanged.
C15_Idempotent ==
    (ExpandCallDone /\ token_free(call.result)) =>
        replace_placeholders(call.result, call.member) = call.result

\* A list of two different items, one a dict with a token, was expanded and
\* holds no token any more.
C15_Witness ==
    /\ ExpandCallDone
    /\ call.obj.t = "list" /\ Len(call.obj.v) = 2
    /\ call.obj.v[1] # call.obj.v[2]
    /\ \E i \in DOMAIN call.obj.v : call.obj.v[i].t = "dict" /\ ~token_free(call.obj.v[i])
    /\ token_free(call.result)
    /\ call.result # call.obj

(***************************************************************************)
(* Properties of the handlers, checked under Spec.                         *)
(***************************************************************************)
\* The replies task t has sent: those delivered, and the one being delivered.
replies_of(t) ==
    IF t.pc \in {"reply", "confirm"} THEN Append(t.replies, t.out) ELSE t.replies

answered_with(t, msg) == \E k \in DOMAIN replies_of(t) : replies_of(t)[k].msg = msg

\* Task t is a theme or welcome command that saved the store.
Saved(t) ==
    \/ t.kind = "theme" /\ answered_with(t, MSG_THEME_UPDATED)
    \/ t.kind = "welcome" /\ answered_with(t, MSG_WELCOME_SET)

\* The store holds what the saved command t wrote for its guild.
WritePresent(t) ==
    /\ has(stored, t.guild)
    /\ LET entry == stored.v[t.guild] IN
       IF t.kind = "theme"
       THEN /\ has(entry, k_theme)
            /\ get(entry.v[k_theme], k_primary) = JInt(parse_color(t.args.primary.v).val)
            /\ get(entry.v[k_theme], k_secondary) =
                   IF t.args.secondary = JNull THEN JNull
                   ELSE JInt(parse_color(t.args.secondary.v).val)
       ELSE /\ get(entry, k_channel_id) = JInt(t.args.channel)
            /\ get(entry, k_embed_data) = loads_table[t.args.embed_json].val
            /\ get(entry, k_role_id) = t.args.role

\* No later command saved the same setting of the same guild.
LastWriter(i) ==
    \A j \in DOMAIN tasks :
        j > i => ~(Saved(tasks[j]) /\ tasks[j].guild = tasks[i].guild
                                   /\ tasks[j].kind = tasks[i].kind)

\* C1, as amended: load-modify-save has no suspension point, so no update is
\* lost: the store holds the write of every saved theme or welcome command
\* that no later command of the same kind for the same guild replaced, in
\* particular both writes of two commands for different guilds.
C1_NoLostUpdate ==
    \A i \in DOMAIN tasks :
        (Saved(tasks[i]) /\ LastWriter(i)) => WritePresent(tasks[i])

\* Two commands for different guilds overlapped: the second ran its whole
\* load-modify-save while the first was suspended in its await, and both saved.
C1_Witness ==
    /\ Len(tasks) >= 2
    /\ tasks[1].pc = "reply" /\ Saved(tasks[1]) /\ Saved(tasks[2])
    /\ tasks[1].guild # tasks[2].guild
    /\ WritePresent(tasks[1]) /\ WritePresent(tasks[2])

\* C1, as claimed: when two commands for different guilds overlap and both
\* have saved, the store has lost one of the two writes.
C1_UpdateLost ==
    \A i, j \in DOMAIN tasks :
        (/\ i < j
         /\ tasks[i].pc = "reply"
         /\ Saved(tasks[i]) /\ Saved(tasks[j])
         /\ tasks[i].guild # tasks[j].guild)
            => (~WritePresent(tasks[i]) \/ ~WritePresent(tasks[j]))

\* The channel.send calls of task i.
sends_of(i) == {m \in DOMAIN sent : sent[m].task = i}

\* The content line 108 reads from a payload whose strings were expanded.
expanded_content(payload, member) ==
    LET c == get(payload, k_content) IN
    IF c.t = "str" THEN JStr(expand_once(c.v, member)) ELSE c

\* C5: a join in a guild whose settings hold a channel and a payload and no
\* role, and whose channel exists, makes exactly one channel.send, to the
\* configured channel, with the stored content expanded for the member
\* ("hi {user}" for <@99> goes out as "hi <@99>"), and no add_roles; a join
\* whose settings lack the channel or the payload makes no channel.send.
C5_JoinWelcome ==
    \A i \in DOMAIN tasks :
        LET t  == tasks[i]
            st == t.settings
        IN  (t.kind = "join" /\ t.pc \in {"send", "done"}) =>
              /\ (/\ st # JNull
                  /\ truthy(get(st, k_channel_id)) /\ truthy(get(st, k_embed_data))
                  /\ ~truthy(get(st, k_role_id))
                  /\ t.channel = "found")
                     => /\ Cardinality(sends_of(i)) = 1
                        /\ \A m \in sends_of(i) :
                               /\ sent[m].channel = st.v[k_channel_id].v
                               /\ sent[m].content =
                                      expanded_content(st.v[k_embed_data], t.args.member)
                               /\ (/\ get(st.v[k_embed_data], k_content)
                                          = JStr(<<"h", "i", " ">> \o tok_user)
                                   /\ t.args.member.mention = <<"<", "@", "9", "9", ">">>)
                                      => sent[m].content
                                             = JStr(<<"h", "i", " ", "<", "@", "9", "9", ">">>)
                        /\ \A r \in DOMAIN role_calls : role_calls[r].task # i
              /\ (\/ st = JNull
                  \/ ~truthy(get(st, k_channel_id))
                  \/ ~truthy(get(st, k_embed_data)))
                     => sends_of(i) = {}

\* The scenario: channel 42, {"content":"hi {user}"}, no role; <@99> joined.
C5_Witness ==
    \E i \in DOMAIN tasks :
        /\ tasks[i].kind = "join" /\ tasks[i].pc = "done"
        /\ tasks[i].settings # JNull
        /\ get(tasks[i].settings, k_role_id) = JNull
        /\ \E m \in sends_of(i) :
               /\ sent[m].channel = 42
               /\ sent[m].content = JStr(<<"h", "i", " ", "<", "@", "9", "9", ">">>)
               /\ sent[m].status = "ok"

\* C6: no failure leaves the join handler, and when the role assignment fails
\* and a welcome message is configured the handler goes on to the welcome
\* message: it looks the channel up, and sends when the channel exists.
C6_RoleFailureSwallowed ==
    \A i \in DOMAIN tasks :
        LET t == tasks[i] IN
        (t.kind = "join" /\ t.pc = "done") =>
            /\ t.raised = "none"
            /\ ((\E r \in DOMAIN role_calls :
                     role_calls[r].task = i /\ role_calls[r].status = "failed")
                  /\ welcome_configured(t.settings))
                   => /\ t.channel # "unset"
                      /\ t.channel = "found" => sends_of(i) # {}

ErrorMessages ==
    {MSG_INVALID_JSON_FORMAT, MSG_ERROR_PARSING, MSG_NEED_CONTENT, MSG_INTERNAL}

\* C7: an embed command that ran ends in exactly one of two ways: the payload
\* was posted and the invoker has the confirmation and no error; or nothing
\* was posted and the invoker has an ephemeral error and no confirmation.
C7_EmbedOutcome ==
    \A i \in DOMAIN tasks :
        LET t         == tasks[i]
            confirmed == answered_with(t, MSG_EMBED_POSTED)
            errored   == \E k \in DOMAIN t.replies :
                             t.replies[k].msg \in ErrorMessages /\ t.replies[k].ephemeral
            posted    == \E m \in sends_of(i) : sent[m].status = "ok"
        IN  (t.kind = "embed" /\ t.admin /\ t.pc = "done") =>
                \/ posted /\ confirmed /\ ~errored
                \/ ~posted /\ ~confirmed /\ errored

\* A step that dispatches a task, and the task it dispatches.
Dispatching == Len(tasks') = Len(tasks) + 1

Dispatched == tasks'[Len(tasks')]

\* Task i takes a step.
Advancing(i) == i \in DOMAIN tasks /\ tasks'[i] # tasks[i]

BadJson(t) == t.kind = "embed" /\ t.admin /\ ~loads_table[t.args.embed_json].ok

C8_Step ==
    /\ (Dispatching /\ BadJson(Dispatched)) =>
           /\ Dispatched.pc = "reply"
           /\ Dispatched.out = Reply(MSG_INVALID_JSON_FORMAT, TRUE)
           /\ sent' = sent
           /\ config_file' = config_file
    /\ \A i \in DOMAIN tasks :
           (BadJson(tasks[i]) /\ Advancing(i)) =>
               /\ tasks'[i].pc = "done"
               /\ tasks'[i].replies = <<Reply(MSG_INVALID_JSON_FORMAT, TRUE)>>
               /\ sent' = sent
               /\ config_file' = config_file

\* C8: an embed command whose embed_json is not valid JSON answers the invoker
\* with the "Invalid JSON format" error and nothing else; none of its steps
\* posts to a channel or changes the store.
C8_InvalidJson == [][C8_Step]_vars

\* The scenario: `{not json` was answered with the error.
C8_Witness ==
    \E i \in DOMAIN tasks :
        /\ tasks[i].kind = "embed" /\ tasks[i].admin /\ tasks[i].pc = "done"
        /\ tasks[i].args.embed_json = txt_not_json
        /\ tasks[i].replies = <<Reply(MSG_INVALID_JSON_FORMAT, TRUE)>>
        /\ sends_of(i) = {}

\* The welcome command run by `Dispatched` persists the configuration when
\* `accepted`, and otherwise leaves the store and answers with an error.
WelcomeStep(accepted) ==
    LET t == Dispatched
        r == loads_table[t.args.embed_json]
    IN  IF accepted
        THEN /\ config_file' # NoFile
             /\ has(config_file', t.guild)
             /\ get(config_file'.v[t.guild], k_channel_id) = JInt(t.args.channel)
             /\ get(config_file'.v[t.guild], k_embed_data) = r.val
             /\ get(config_file'.v[t.guild], k_role_id) = t.args.role
             /\ t.out = Reply(MSG_WELCOME_SET, FALSE)
        ELSE /\ config_file' = config_file
             /\ t.out.ephemeral
             /\ t.out.msg \in {MSG_INVALID_JSON_FORMAT, MSG_INVALID_JSON, MSG_INTERNAL}

WelcomeRan == Dispatching /\ Dispatched.kind = "welcome" /\ Dispatched.admin

\* C9, as amended: the welcome configuration is persisted if and only if
\* embed_json parses to an object with a non-empty (truthy) value under at
\* least one of content, embeds, title; then the guild's entry holds the given
\* channel id, the parsed payload and the role id (None without a role).
\* Otherwise the store is unchanged and the invoker gets an error reply.
C9_WelcomePersisted ==
    [][WelcomeRan =>
           LET r == loads_table[Dispatched.args.embed_json] IN
           WelcomeStep(/\ r.ok
                       /\ r.val.t = "dict"
                       /\ \E k \in {k_content, k_embeds, k_title} :
                              truthy(get(r.val, k)))]_vars

\* A welcome command with a role was accepted; one with {"content":""} refused.
C9_Witness ==
    /\ Len(tasks) >= 2
    /\ tasks[1].kind = "welcome" /\ tasks[1].admin
    /\ tasks[1].args.embed_json = txt_empty_content
    /\ tasks[1].replies = <<Reply(MSG_INVALID_JSON, TRUE)>>
    /\ tasks[2].kind = "welcome" /\ tasks[2].admin
    /\ tasks[2].args.embed_json = txt_hi_user
    /\ tasks[2].args.role # JNull
    /\ tasks[2].replies = <<Reply(MSG_WELCOME_SET, FALSE)>>
    /\ WritePresent(tasks[2])

\* C9, as claimed: persisted if and only if embed_json parses and the parsed
\* JSON contains at least one of the keys content, embeds, title.
C9_PersistedIffKey ==
    [][WelcomeRan =>
           LET r == loads_table[Dispatched.args.embed_json] IN
           WelcomeStep(/\ r.ok
                       /\ r.val.t = "dict"
                       /\ \E k \in {k_content, k_embeds, k_title} : has(r.val, k))]_vars

\* int(s.strip('#'), 16) of the color strings the model draws, worked by hand.
hex_by_hand(color) ==
    CASE color = <<"#", "F", "F", "5", "7", "3", "3">> -> [ok |-> TRUE, val |-> 16734003]
      [] color = <<"#", "0", "0", "0", "0", "0", "0">> -> [ok |-> TRUE, val |-> 0]
      [] color = <<"#", "0", "a">> -> [ok |-> TRUE, val |-> 10]
      [] color = <<"z", "z">> -> [ok |-> FALSE]
      [] color = <<"x", "y", "z">> -> [ok |-> FALSE]

C10_Step ==
    (Dispatching /\ Dispatched.kind = "theme" /\ Dispatched.admin) =>
        LET t  == Dispatched
            p  == hex_by_hand(t.args.primary.v)
            sc == IF t.args.secondary = JNull
                  THEN [ok |-> TRUE]
                  ELSE hex_by_hand(t.args.secondary.v)
        IN  IF ~p.ok \/ ~sc.ok
            THEN /\ config_file' = config_file
                 /\ t.out = Reply(MSG_INVALID_HEX, TRUE)
            ELSE /\ config_file' # NoFile
                 /\ has(config_file', t.guild)
                 /\ get(config_file'.v[t.guild], k_theme) =
                        JDict((k_primary :> JInt(p.val))
                              @@ (k_secondary :>
                                      IF t.args.secondary = JNull THEN JNull
                                      ELSE JInt(sc.val)))
                 /\ t.replies = <<>>
                 /\ t.out.msg = MSG_THEME_UPDATED

\* C10: a theme command whose primary, or given secondary, is no base-16
\* integer after stripping `#` answers with the validation error and leaves
\* the store; when both parse, the step that saves {primary, secondary or
\* None} as the guild's theme comes before the confirmation reaches the invoker.
C10_ThemeValidated == [][C10_Step]_vars

\* #FF5733 with secondary #0a was saved and confirmed.
C10_Witness ==
    \E i \in DOMAIN tasks :
        /\ tasks[i].kind = "theme" /\ tasks[i].admin /\ tasks[i].pc = "done"
        /\ tasks[i].args.primary = JStr(<<"#", "F", "F", "5", "7", "3", "3">>)
        /\ tasks[i].args.secondary = JStr(<<"#", "0", "a">>)
        /\ answered_with(tasks[i], MSG_THEME_UPDATED)
        /\ WritePresent(tasks[i])

\* The theme command of the scenario starts on the empty store: an
\* administrator of guild "1" gives primary #FF5733 and no secondary.
C11_Scenario ==
    /\ stored = EmptyDict
    /\ Dispatching
    /\ Dispatched.kind = "theme" /\ Dispatched.admin
    /\ Dispatched.guild = <<"1">>
    /\ Dispatched.args.primary = JStr(<<"#", "F", "F", "5", "7", "3", "3">>)
    /\ Dispatched.args.secondary = JNull

\* {"1": {"theme": {"primary": primary, "secondary": null}}}
ThemeOnlyStore(primary) ==
    JDict(<<"1">> :> JDict(k_theme :> JDict((k_primary :> JInt(primary))
                                            @@ (k_secondary :> JNull))))

\* C11, as amended: from the empty store, the theme command with primary
\* #FF5733 and no secondary for guild "1" leaves the store equal to
\* {"1": {"theme": {"primary": 16734003, "secondary": null}}}; 16734003 is
\* 0xFF5733 = 255 * 65536 + 87 * 256 + 51.
C11_ThemeScenario == [][C11_Scenario => config_file' = ThemeOnlyStore(16734003)]_vars

\* The scenario ran and its confirmation reached the invoker.
C11_Witness ==
    /\ Len(tasks) >= 1
    /\ tasks[1].kind = "theme" /\ tasks[1].admin /\ tasks[1].pc = "done"
    /\ tasks[1].guild = <<"1">>
    /\ tasks[1].args.primary = JStr(<<"#", "F", "F", "5", "7", "3", "3">>)
    /\ tasks[1].args.secondary = JNull
    /\ answered_with(tasks[1], MSG_THEME_UPDATED)
    /\ config_file = ThemeOnlyStore(255 * 65536 + 87 * 256 + 51)

\* C11, as claimed: the store the scenario leaves holds primary 16733491.
C11_AsClaimed == [][C11_Scenario => config_file' = ThemeOnlyStore(16733491)]_vars

\* The guild keys of a store file.
guild_keys(file) == IF file = NoFile THEN {} ELSE DOMAIN file.v

C12_Step ==
    /\ guild_keys(config_file) \subseteq guild_keys(config_file')
    /\ \A g \in guild_keys(config_file') \ guild_keys(config_file) :
           Dispatching /\ Saved(Dispatched) /\ Dispatched.guild = g

\* C12: in every step of every interleaving of theme, welcome and embed
\* commands and member joins, the set of guild keys of the store does not
\* shrink, and a guild key appears only in the step in which a theme or
\* welcome command for that guild succeeds and saves.
C12_GuildLifecycle == [][C12_Step]_vars

\* A theme command created the entry of one guild and a welcome command the
\* entry of the other, with the first still waiting for its confirmation.
C12_Witness ==
    /\ Len(tasks) >= 2
    /\ tasks[1].kind = "theme" /\ Saved(tasks[1]) /\ tasks[1].pc = "reply"
    /\ tasks[2].kind = "welcome" /\ Saved(tasks[2])
    /\ tasks[1].guild # tasks[2].guild
    /\ guild_keys(config_file) = {tasks[1].guild, tasks[2].guild}
    /\ ~has(stored.v[tasks[1].guild], k_channel_id)
    /\ ~has(stored.v[tasks[2].guild], k_theme)

C13_Step ==
    /\ (Dispatching /\ ~Dispatched.admin) =>
           /\ config_file' = config_file
           /\ sent' = sent
           /\ Dispatched.replies = <<>>
           /\ Dispatched.pc = "reply"
           /\ Dispatched.out = Reply(MSG_NEED_ADMIN, TRUE)
    /\ \A i \in DOMAIN tasks :
           (~tasks[i].admin /\ Advancing(i)) =>
               /\ config_file' = config_file
               /\ sent' = sent
               /\ tasks'[i].pc = "done"
               /\ tasks'[i].replies = <<Reply(MSG_NEED_ADMIN, TRUE)>>

\* C13: no step of a theme, embed or welcome command invoked without the
\* administrator permission changes the store or posts to a channel, and the
\* one reply its invoker receives is the ephemeral missing-permission message.
C13_AdminGate == [][C13_Step]_vars

\* Two commands were refused and answered; nothing was stored or posted.
C13_Witness ==
    /\ Len(tasks) >= 2
    /\ \A i \in 1..2 :
           /\ ~tasks[i].admin /\ tasks[i].pc = "done"
           /\ tasks[i].replies = <<Reply(MSG_NEED_ADMIN, TRUE)>>
    /\ {tasks[1].kind, tasks[2].kind} = {"welcome", "embed"}
    /\ config_file = NoFile
    /\ sent = <<>>

\* The step runs the load-modify-save of a theme or welcome command.
CommandRan ==
    Dispatching /\ Dispatched.kind \in {"theme", "welcome"} /\ Dispatched.admin

C14_Step ==
    CommandRan =>
        \A h \in guild_keys(config_file) \ {Dispatched.guild} :
            /\ h \in guild_keys(config_file')
            /\ config_file'.v[h] = config_file.v[h]

\* C14: the step in which a theme or welcome command for guild g runs leaves
\* the entry of every other guild h of the store as it was, whatever other
\* handlers are suspended at the time.
C14_OtherGuildsKept == [][C14_Step]_vars

\* A welcome command for one guild saved while the theme command of the other
\* guild was suspended in its reply; the other guild's entry is the theme alone.
C14_Witness ==
    /\ Len(tasks) >= 2
    /\ tasks[1].kind = "theme" /\ Saved(tasks[1]) /\ tasks[1].pc = "reply"
    /\ tasks[2].kind = "welcome" /\ Saved(tasks[2]) /\ tasks[2].pc = "done"
    /\ tasks[1].guild # tasks[2].guild
    /\ has(stored, tasks[1].guild)
    /\ DOMAIN stored.v[tasks[1].guild].v = {k_theme}
    /\ WritePresent(tasks[1])

\* The embed objects of the payload a task hands to lines 108-115 / 168-180.
payload_embeds(data) == IF has(data, k_embeds) THEN data.v[k_embeds].v ELSE <<>>

\* C16: every channel.send of the join handler and of the embed command
\* carries at most 10 embeds; when the `embeds` list of its payload has more
\* than 10 elements the message carries exactly the first 10, in their order.
C16_TenEmbeds ==
    \A m \in DOMAIN sent :
        LET all == payload_embeds(tasks[sent[m].task].data) IN
        /\ tasks[sent[m].task].kind \in {"join", "embed"}
        /\ Len(sent[m].embeds) <= 10
        /\ Len(all) > 10 =>
               /\ Len(sent[m].embeds) = 10
               /\ \A k \in 1..10 : sent[m].embeds[k] = from_dict(all[k])

\* A welcome message configured with 11 embeds went out with 10: the first is
\* the first of the payload, the 11th is not among them.
C16_Witness ==
    \E m \in DOMAIN sent :
        LET all == payload_embeds(tasks[sent[m].task].data) IN
        /\ tasks[sent[m].task].kind = "join"
        /\ Len(all) = 11
        /\ sent[m].status = "ok"
        /\ Len(sent[m].embeds) = 10
        /\ get(sent[m].embeds[1], k_title) = JStr(<<"x">>)
        /\ \A k \in 1..10 : get(sent[m].embeds[k], k_color) # JInt(1)

\* The value under key k of guild g's entry in a store file, Absent when the
\* guild or the key is not there.
Absent == [t |-> "absent"]

field(file, g, k) ==
    IF g \in guild_keys(file) /\ has(file.v[g], k) THEN file.v[g].v[k] ELSE Absent

C17_Step ==
    (CommandRan /\ Saved(Dispatched)) =>
        LET g == Dispatched.guild IN
        IF Dispatched.kind = "theme"
        THEN \A k \in {k_channel_id, k_embed_data, k_role_id} :
                 field(config_file', g, k) = field(config_file, g, k)
        ELSE field(config_file', g, k_theme) = field(config_file, g, k_theme)

\* Both settings of one guild are those of the last command of their kind.
C17_LastOfEach ==
    \A i, j \in DOMAIN tasks :
        (/\ tasks[i].kind = "theme" /\ Saved(tasks[i]) /\ LastWriter(i)
         /\ tasks[j].kind = "welcome" /\ Saved(tasks[j]) /\ LastWriter(j)
         /\ tasks[i].guild = tasks[j].guild)
            => WritePresent(tasks[i]) /\ WritePresent(tasks[j])

\* C17: a successful theme command leaves channel_id, embed_data and role_id
\* of its guild as they were (absent when they were absent), a successful
\* welcome command leaves the guild's theme as it was; and so, after theme and
\* welcome commands on one guild, the stored theme is that of the last theme
\* command and the stored welcome fields those of the last welcome command.
C17_Independent == [][C17_Step]_vars /\ []C17_LastOfEach

\* A theme command and then a welcome command of one guild both saved, the
\* first still waiting for its confirmation; the entry holds both settings.
C17_Witness ==
    /\ Len(tasks) >= 2
    /\ tasks[1].kind = "theme" /\ Saved(tasks[1]) /\ tasks[1].pc = "reply"
    /\ tasks[2].kind = "welcome" /\ Saved(tasks[2])
    /\ tasks[1].guild = tasks[2].guild
    /\ WritePresent(tasks[1]) /\ WritePresent(tasks[2])
    /\ DOMAIN stored.v[tasks[1].guild].v = {k_theme, k_channel_id, k_embed_data, k_role_id}

C18_Step ==
    /\ (Dispatching /\ Dispatched.kind \in {"join", "embed"}) =>
           config_file' = config_file
    /\ \A i \in DOMAIN tasks :
           (tasks[i].kind \in {"join", "embed"} /\ Advancing(i)) =>
               config_file' = config_file

\* Every stored embed_data is a payload as json.loads returned it to a welcome
\* command: no color was injected into it.
C18_StoredRaw ==
    \A g \in guild_keys(config_file) :
        field(config_file, g, k_embed_data) # Absent =>
            \E txt \in Texts :
                /\ loads_table[txt].ok
                /\ field(config_file, g, k_embed_data) = loads_table[txt].val

\* C18: no step of the member-join handler or of the embed command changes
\* the store, and the embed_data the store holds stays the payload the
\* welcome command parsed: the color apply_theme injects reaches the message,
\* never the store.
C18_HandlersReadOnly == [][C18_Step]_vars /\ []C18_StoredRaw

\* A welcome message went out with the theme color injected into its embed,
\* and the stored embed_data of the guild has no color.
C18_Witness ==
    \E m \in DOMAIN sent :
        LET t == tasks[sent[m].task] IN
        /\ t.kind = "join" /\ t.pc = "done"
        /\ sent[m].status = "ok"
        /\ Len(sent[m].embeds) >= 1
        /\ truthy(stored_primary(t.guild))
        /\ get(sent[m].embeds[1], k_color) = stored_primary(t.guild)
        /\ field(config_file, t.guild, k_embed_data) # Absent
        /\ \A k \in DOMAIN payload_embeds(field(config_file, t.guild, k_embed_data)) :
               ~has(payload_embeds(field(config_file, t.guild, k_embed_data))[k], k_color)

\* The theme primary of the entry the join handler loaded at line 84-90.
snapshot_primary(settings) ==
    IF has(settings, k_theme) THEN get(settings.v[k_theme], k_primary) ELSE JNull

\* The color of an embed built from raw_embed when the theme primary is p.
themed_color(raw_embed, p, themable) ==
    IF has(raw_embed, k_color) THEN raw_embed.v[k_color]
    ELSE IF themable /\ truthy(p) THEN p
    ELSE JNull

\* Message msg of join task t goes to the channel of t.settings, carries the
\* payload of t.settings expanded for the member, and its embeds that define
\* no color of their own have primary p, or none when p is None or 0.
JoinMessage(msg, t, p) ==
    LET raw == t.settings.v[k_embed_data] IN
    /\ msg.channel = t.settings.v[k_channel_id].v
    /\ msg.content = expanded_content(raw, t.args.member)
    /\ IF has(raw, k_embeds)
       THEN /\ Len(msg.embeds) = Len(take(raw.v[k_embeds].v, EmbedCap))
            /\ \A k \in DOMAIN msg.embeds :
                   get(msg.embeds[k], k_color) = themed_color(raw.v[k_embeds].v[k], p, TRUE)
       ELSE \A k \in DOMAIN msg.embeds :
                get(msg.embeds[k], k_color) =
                    themed_color(raw, p, \E key \in {k_title, k_description, k_fields} :
                                            has(raw, key))

C19_Step ==
    \A m \in DOMAIN sent' \ DOMAIN sent :
        LET t == tasks'[sent'[m].task] IN
        t.kind = "join" => JoinMessage(sent'[m], t, stored_primary(t.guild))

\* C19, as amended: the channel and the payload of a welcome message are
\* those of the entry the handler loaded when the member joined, whatever
\* commands complete while it is suspended in the role assignment; the theme
\* primary is the one the store holds when the message is built, after the
\* role assignment, because apply_theme loads the store again.
C19_SnapshotAndReload == [][C19_Step]_vars

\* A theme command completed while the handler was suspended in add_roles:
\* the message has the new color though the loaded entry had no theme.
C19_Witness ==
    \E m \in DOMAIN sent :
        LET t == tasks[sent[m].task] IN
        /\ t.kind = "join" /\ t.role = "found" /\ t.pc = "done"
        /\ sent[m].status = "ok"
        /\ ~has(t.settings, k_theme)
        /\ Len(sent[m].embeds) >= 1
        /\ get(sent[m].embeds[1], k_color) = JInt(16734003)
        /\ JoinMessage(sent[m], t, JInt(16734003))

\* C19, as claimed: channel, payload and theme primary of every welcome
\* message all come from the entry the handler loaded when the member joined.
C19_OneSnapshot ==
    \A m \in DOMAIN sent :
        LET t == tasks[sent[m].task] IN
        t.kind = "join" => JoinMessage(sent[m], t, snapshot_primary(t.settings))
====
